---- MODULE Spec2Model ----
(***************************************************************************)
(* Contacts-management backend (FastAPI + SQLAlchemy).                     *)
(*                                                                         *)
(* The store holds the two tables of src/src/database/models.py (users,    *)
(* contacts).  Every route handler of src/src/routes/auth.py and           *)
(* src/src/routes/contact.py is one action that runs the handler from its  *)
(* first statement to the response, repository calls and commit included.  *)
(* The response of the most recent request is kept in resp.                *)
(*                                                                         *)
(* A handler's status is the status the handler itself produces: the code  *)
(* of the HTTPException it raises, 500 for any other exception it lets     *)
(* escape (TypeError, IntegrityError, a response that does not validate    *)
(* against the declared response_model), the declared status otherwise.    *)
(* The rate limiter in front of the contact routes is an external          *)
(* middleware; the actions are the requests it admits.  Loading the        *)
(* Contact.user relationship while a response is serialized is the ORM's   *)
(* business and is taken to succeed.                                       *)
(*                                                                         *)
(* created_at / updated_at of User are server-side timestamps that no      *)
(* handler reads; they are not part of the user records below.             *)
(*                                                                         *)
(* Spec, SpecContacts and SpecBirthdays answer one request at a time.      *)
(* SpecSession follows the session context manager of                      *)
(* src/src/database/db.py through its awaited calls.  SpecUpdates and      *)
(* SpecRefresh split the update and the refresh handler at their           *)
(* suspension points (the awaited database calls), each request working    *)
(* on the objects its own session loaded; tasks holds the requests in      *)
(* flight.                                                                 *)
(***************************************************************************)
EXTENDS Integers, Sequences, FiniteSets, TLC

\* ------------------------------------------------------------------ bounds
MaxNow == 2          \* clock instants observed by the token flows: 0..MaxNow
MaxDay == 1          \* calendar days observed by the contact flows: 0..MaxDay
MaxContacts == 2     \* contacts created in the contact flows
MaxBirthdayContacts == 4   \* contacts created in the birthday flows

\* ------------------------------------------------------ Python None values
None == [none |-> TRUE]     \* None where an object (User, token) is expected
NoneStr == "None"           \* None in a str column / str field

\* ------------------------------------------------------------- input sets
Emails == {"a@x.com", "b@x.com"}
SignupPasswords == {"secret1"}
LoginPasswords == {"secret1", "wrong12"}
Usernames == {"alice"}

\* UserSchema instances (src/src/schemas.py:7-10)
UserSchema == [username : Usernames, email : Emails, password : SignupPasswords]

\* OAuth2PasswordRequestForm instances: username carries the email
OAuth2PasswordRequestForm == [username : Emails, password : LoginPasswords]

VARIABLES
    users,          \* rows of table users
    nextUserId,     \* next value of the users.id sequence
    mailbox,        \* confirmation tokens carried by the e-mails scheduled at signup
    issued,         \* refresh tokens handed out in login / refresh responses
    now,            \* clock instant read by the token service
    contacts,       \* rows of table contacts
    nextContactId,  \* next value of the contacts.id sequence
    today,          \* calendar date (day number) returned by date.today()
    resp,           \* response to the most recent request
    tasks           \* requests in flight: each one's position, session and
                    \* local objects

authVars == <<users, nextUserId, mailbox, issued, now>>
contactVars == <<contacts, nextContactId, today>>
vars == <<users, nextUserId, mailbox, issued, now, contacts, nextContactId, today, resp,
          tasks>>

\* ---------------------------------------------------------------- statuses
HTTP_201_CREATED == 201
HTTP_400_BAD_REQUEST == 400
HTTP_401_UNAUTHORIZED == 401
HTTP_404_NOT_FOUND == 404
HTTP_409_CONFLICT == 409
HTTP_422_UNPROCESSABLE_ENTITY == 422
HTTP_200_OK == 200
HTTP_500_INTERNAL_SERVER_ERROR == 500

\* ------------------------------------------------- authentication service
\* (src/services/auth.py is not part of the sources; modelled from the
\*  design document, sections 4.5 and 6)
AccessTokenLifetime == 0
RefreshTokenLifetime == 1
EmailTokenLifetime == 2

get_password_hash(password) == [hashed |-> password]

verify_password(plain_password, hashed_password) ==
    hashed_password = get_password_hash(plain_password)

create_access_token(sub) ==
    [sub |-> sub, iat |-> now, exp |-> now + AccessTokenLifetime, scope |-> "access_token"]

create_refresh_token(sub) ==
    [sub |-> sub, iat |-> now, exp |-> now + RefreshTokenLifetime, scope |-> "refresh_token"]

create_email_token(sub) ==
    [sub |-> sub, iat |-> now, exp |-> now + EmailTokenLifetime, scope |-> "email_token"]

\* a signed token is expired once the clock has passed its exp
TokenExpired(token) == token.exp < now

\* the subject e-mail, or None when the service raises 401
decode_refresh_token(token) ==
    IF token.scope = "refresh_token" /\ ~TokenExpired(token)
    THEN [sub |-> token.sub] ELSE None

\* the subject e-mail, or None when the service raises its verification error
get_email_from_token(token) ==
    IF token.scope = "email_token" /\ ~TokenExpired(token)
    THEN [sub |-> token.sub] ELSE None

\* ------------------------------------------------------------ schemas.py
\* UserResponseSchema: id, username, email, avatar, all required, avatar a str
UserResponseSchema_validate(content) ==
    /\ {"id", "username", "email", "avatar"} \subseteq DOMAIN content
    /\ content.avatar # NoneStr

\* ------------------------------------------------------ repository/users.py
\* the lookup filters on the wrong column
get_user_by_username(email, rows) ==
    IF \E u \in rows : u.username = email
    THEN CHOOSE u \in rows : u.username = email
    ELSE None

get_user_by_email(email, rows) ==
    IF \E u \in rows : u.email = email
    THEN CHOOSE u \in rows : u.email = email
    ELSE None

\* users.email is declared unique: the commit of a second row with the same
\* e-mail raises IntegrityError
UserEmailUnique(rows, row) == \A u \in rows : u.email # row.email

\* Gravatar(body.email).get_image(), or None when it raises
GravatarImages(email) == {NoneStr, "https://www.gravatar.com/avatar/" \o email}

\* the account is created already confirmed
create_user_confirmed(body, avatar) ==
    [id |-> nextUserId, username |-> body.username, email |-> body.email,
     password |-> body.password, avatar |-> avatar,
     refresh_token |-> None, confirmed |-> TRUE]

\* User(**body.model_dump(), avatar=avatar): refresh_token and confirmed take
\* their column defaults
create_user(body, avatar) ==
    [id |-> nextUserId, username |-> body.username, email |-> body.email,
     password |-> body.password, avatar |-> avatar,
     refresh_token |-> None, confirmed |-> FALSE]

\* the token argument is ignored: the stored token is always cleared
update_token_always_clears(user, token, rows) ==
    (rows \ {user}) \cup {[user EXCEPT !.refresh_token = None]}

\* a None token is skipped instead of stored: revocation writes nothing
update_token_skips_none(user, token, rows) ==
    IF token = None
    THEN rows
    ELSE (rows \ {user}) \cup {[user EXCEPT !.refresh_token = token]}

\* user.refresh_token = token; commit
update_token(user, token, rows) ==
    (rows \ {user}) \cup {[user EXCEPT !.refresh_token = token]}

\* the commit is missing: the flag is never persisted
confirmed_email_not_committed(email, rows) == rows

\* user = get_user_by_email(email); user.confirmed = True; commit
repository_confirmed_email(email, rows) ==
    LET user == get_user_by_email(email, rows)
    IN  (rows \ {user}) \cup {[user EXCEPT !.confirmed = TRUE]}

\* user = get_user_by_email(email); user.avatar = url; db.commit(); return
\* user.  The coroutine db.commit() returns is never awaited: the returned
\* object carries the new avatar, the stored row is not written
repository_update_avatar(email, url, rows) ==
    LET user == get_user_by_email(email, rows)
    IN  [user |-> [user EXCEPT !.avatar = url], rows |-> rows]

\* --------------------------------------------------------------- responses
\* request: the validated input; detail: the detail of the raised exception
\* (NoneStr on success); body: the serialized response body (None on error)
Response(op, status, detail, request, body) ==
    [op |-> op, status |-> status, detail |-> detail, request |-> request, body |-> body]

\* TokenModel (src/src/schemas.py:23-26)
TokenModel(access_token, new_refresh_token) ==
    [access_token |-> access_token, refresh_token |-> new_refresh_token,
     token_type |-> "bearer"]

\* ------------------------------------------------------------ routes/auth.py
signup(body) ==
    LET exist_user == get_user_by_email(body.email, users)
    IN  IF exist_user # None
        THEN /\ resp' = Response("signup", HTTP_409_CONFLICT,
                                 "Account already exists", body, None)
             /\ UNCHANGED <<users, nextUserId, mailbox, issued, now>>
        ELSE \E avatar \in GravatarImages(body.email) :
             LET hashed == [body EXCEPT !.password = get_password_hash(body.password)]
                 new_user == create_user(hashed, avatar)
                 content == [user |-> new_user, detail |-> "User successfully created"]
             IN  IF ~UserEmailUnique(users, new_user)
                 THEN /\ resp' = Response("signup", HTTP_500_INTERNAL_SERVER_ERROR,
                                          "IntegrityError", body, None)
                      /\ UNCHANGED <<users, nextUserId, mailbox, issued, now>>
                 ELSE /\ users' = users \cup {new_user}
                      /\ nextUserId' = nextUserId + 1
                      /\ mailbox' = mailbox \cup {create_email_token(new_user.email)}
                      /\ resp' = IF UserResponseSchema_validate(content)
                                 THEN Response("signup", HTTP_201_CREATED, NoneStr, body,
                                               [id |-> content.id,
                                                username |-> content.username,
                                                email |-> content.email,
                                                avatar |-> content.avatar])
                                 ELSE Response("signup", HTTP_500_INTERNAL_SERVER_ERROR,
                                               "ResponseValidationError", body, None)
                      /\ UNCHANGED <<issued, now>>

\* the test of user.confirmed is missing
login_error_no_confirmed_check(user, body) ==
    IF user = None THEN "Invalid email"
    ELSE IF ~verify_password(body.password, user.password) THEN "Invalid password"
    ELSE NoneStr

\* lines 58-63: the detail of the 401 the handler raises, NoneStr when it
\* raises none
login_error(user, body) ==
    IF user = None THEN "Invalid email"
    ELSE IF ~user.confirmed THEN "Email not confirmed"
    ELSE IF ~verify_password(body.password, user.password) THEN "Invalid password"
    ELSE NoneStr

login(body) ==
    LET user == get_user_by_email(body.username, users)
        detail == login_error(user, body)
    IN  IF detail # NoneStr
        THEN /\ resp' = Response("login", HTTP_401_UNAUTHORIZED, detail, body, None)
             /\ UNCHANGED <<users, nextUserId, mailbox, issued, now>>
        ELSE LET access_token == create_access_token(user.email)
                 new_token == create_refresh_token(user.email)
             IN  /\ users' = update_token(user, new_token, users)
                 /\ issued' = issued \cup {new_token}
                 /\ resp' = Response("login", HTTP_200_OK, NoneStr, body,
                                     TokenModel(access_token, new_token))
                 /\ UNCHANGED <<nextUserId, mailbox, now>>

refresh_token(token) ==
    LET email == decode_refresh_token(token)
    IN  IF email = None
        THEN /\ resp' = Response("refresh_token", HTTP_401_UNAUTHORIZED,
                                 "Could not validate credentials", token, None)
             /\ UNCHANGED <<users, nextUserId, mailbox, issued, now>>
        ELSE LET user == get_user_by_email(email.sub, users)
             IN  IF user = None
                 THEN \* user.refresh_token on None: AttributeError
                      /\ resp' = Response("refresh_token", HTTP_500_INTERNAL_SERVER_ERROR,
                                          "AttributeError", token, None)
                      /\ UNCHANGED <<users, nextUserId, mailbox, issued, now>>
                 ELSE IF user.refresh_token # token
                 THEN /\ users' = update_token(user, None, users)
                      /\ resp' = Response("refresh_token", HTTP_401_UNAUTHORIZED,
                                          "Invalid refresh token", token, None)
                      /\ UNCHANGED <<nextUserId, mailbox, issued, now>>
                 ELSE LET access_token == create_access_token(email.sub)
                          new_token == create_refresh_token(email.sub)
                      IN  /\ users' = update_token(user, new_token, users)
                          /\ issued' = issued \cup {new_token}
                          /\ resp' = Response("refresh_token", HTTP_200_OK, NoneStr, token,
                                              TokenModel(access_token, new_token))
                          /\ UNCHANGED <<nextUserId, mailbox, now>>

confirmed_email(token) ==
    LET email == get_email_from_token(token)
    IN  IF email = None
        THEN /\ resp' = Response("confirmed_email", HTTP_422_UNPROCESSABLE_ENTITY,
                                 "Invalid token for email verification", token, None)
             /\ UNCHANGED <<users, nextUserId, mailbox, issued, now>>
        ELSE LET user == get_user_by_email(email.sub, users)
             IN  IF user = None
                 THEN /\ resp' = Response("confirmed_email", HTTP_400_BAD_REQUEST,
                                          "Verification error", token, None)
                      /\ UNCHANGED <<users, nextUserId, mailbox, issued, now>>
                 ELSE IF user.confirmed
                 THEN /\ resp' = Response("confirmed_email", HTTP_200_OK, NoneStr, token,
                                          [message |-> "Your email is already confirmed"])
                      /\ UNCHANGED <<users, nextUserId, mailbox, issued, now>>
                 ELSE /\ users' = repository_confirmed_email(email.sub, users)
                      /\ resp' = Response("confirmed_email", HTTP_200_OK, NoneStr, token,
                                          [message |-> "Email confirmed"])
                      /\ UNCHANGED <<nextUserId, mailbox, issued, now>>

\* the avatar-update operation of the users route: the current user's e-mail
\* and the uploaded image's URL go to the repository, the returned entity is
\* the response
update_avatar(email, url) ==
    LET result == repository_update_avatar(email, url, users)
    IN  /\ users' = result.rows
        /\ resp' = Response("update_avatar", HTTP_200_OK, NoneStr,
                            [sub |-> email, url |-> url],
                            [id |-> result.user.id, username |-> result.user.username,
                             email |-> result.user.email, avatar |-> result.user.avatar])
        /\ UNCHANGED <<nextUserId, mailbox, issued, now>>

\* ------------------------------------------------------- database/models.py
\* Contact.birthday, created_date and update_date are DateTime columns: a
\* date written to them is stored as that day at 00:00:00
SecondsPerDay == 86400
DateTime(day) == day * SecondsPerDay
date_of(datetime) == datetime \div SecondsPerDay
time_of(datetime) == datetime % SecondsPerDay

\* contacts.email is declared unique
ContactEmailUnique(rows, row) == \A c \in rows : c.id = row.id \/ c.email # row.email

\* exceptions a call can raise instead of returning
TypeError == [raised |-> "TypeError"]
IntegrityError == [raised |-> "IntegrityError"]

\* ------------------------------------------------------------- schemas.py
\* the fields a client supplies for a contact
ContactData ==
    { [first_name |-> "Ann", last_name |-> "Lee", email |-> "ann@x.com",
       phone_number |-> "111", birthday |-> 0],
      [first_name |-> "Bob", last_name |-> "Ray", email |-> "bob@x.com",
       phone_number |-> "222", birthday |-> 3],
      [first_name |-> "Cat", last_name |-> "Fox", email |-> "cat@x.com",
       phone_number |-> "333", birthday |-> 7],
      [first_name |-> "Dan", last_name |-> "Orr", email |-> "dan@x.com",
       phone_number |-> "444", birthday |-> 8] }

\* ContactSchema.__init__: created_date is forced to date.today()
ContactSchema(data) ==
    [first_name |-> data.first_name, last_name |-> data.last_name,
     email |-> data.email, phone_number |-> data.phone_number,
     birthday |-> data.birthday, created_date |-> today]

\* ContactUpdateSchema.__init__: update_date is forced to date.today()
ContactUpdateSchema(data) ==
    [first_name |-> data.first_name, last_name |-> data.last_name,
     email |-> data.email, phone_number |-> data.phone_number,
     birthday |-> data.birthday, update_date |-> today]

\* ContactResponse read from a Contact row: birthday is a date, user is the
\* nested UserResponseSchema of the owner
ContactResponse(contact) ==
    LET owner == CHOOSE u \in users : u.id = contact.user_id
    IN  [id |-> contact.id, first_name |-> contact.first_name,
         last_name |-> contact.last_name, email |-> contact.email,
         phone_number |-> contact.phone_number,
         birthday |-> date_of(contact.birthday),
         created_date |-> contact.created_date,
         update_date |-> contact.update_date,
         user |-> [id |-> owner.id, username |-> owner.username,
                   email |-> owner.email, avatar |-> owner.avatar]]

\* a datetime is accepted for the date field only with a zero time part; the
\* nested user must validate against UserResponseSchema
ContactResponse_validate(contact) ==
    /\ time_of(contact.birthday) = 0
    /\ \E u \in users : u.id = contact.user_id
    /\ UserResponseSchema_validate(ContactResponse(contact).user)

\* ---------------------------------------------------- repository/contact.py
\* select(Contact).where(Contact.id == contact_id, user=user): Select.where
\* takes no keyword argument, the call raises before any query is built
repository_get_contact(contact_id, rows, user) == TypeError

\* the AsyncSession handed out by get_db; execute runs a query on the rows
AsyncSession(rows) == [execute |-> rows]

\* the rows as a list; the query has no ORDER BY, the store returns them in
\* primary key order
OrderedById(rows) ==
    [i \in 1..Cardinality(rows) |->
        CHOOSE c \in rows : Cardinality({d \in rows : d.id < c.id}) = i - 1]

\* .offset(offset).limit(limit) / list[offset:][:limit]
Page(list, offset, limit) ==
    SubSeq(list, offset + 1,
           IF offset + limit < Len(list) THEN offset + limit ELSE Len(list))

get_contacts_params == <<"limit", "offset", "db", "user">>

ArgumentError == [raised |-> "ArgumentError"]
AttributeError == [raised |-> "AttributeError"]

\* select(Contact).filter_by(user=user).offset(offset).limit(limit);
\* await db.execute(sq); scalars().all().  filter_by(user=...) compares the
\* relationship with a mapped User instance and raises for anything else;
\* db.execute is looked up on whatever object arrives as db.  The result is
\* the exception raised or the record [all |-> the list]
repository_get_contacts(limit, offset, db, user) ==
    IF "id" \notin DOMAIN user
    THEN ArgumentError
    ELSE IF "execute" \notin DOMAIN db
    THEN AttributeError
    ELSE [all |-> Page(OrderedById({c \in db.execute : c.user_id = user.id}),
                       offset, limit)]

\* Contact(**contact_data, user=user); add; commit; refresh.
\* update_date takes its column default, date.today()
repository_create_contact(body, rows, user) ==
    LET contact == [id |-> nextContactId, first_name |-> body.first_name,
                    last_name |-> body.last_name, email |-> body.email,
                    phone_number |-> body.phone_number,
                    birthday |-> DateTime(body.birthday),
                    created_date |-> DateTime(body.created_date),
                    update_date |-> DateTime(today),
                    user_id |-> user.id]
    IN  IF ContactEmailUnique(rows, contact)
        THEN [contact |-> contact, rows |-> rows \cup {contact}]
        ELSE IntegrityError

\* the owner filter is missing: filter_by(id=contact_id)
update_contact_any_owner(contact_id, body, rows, user) ==
    LET found == {c \in rows : c.id = contact_id}
    IN  IF found = {}
        THEN [contact |-> None, rows |-> rows]
        ELSE LET contact == CHOOSE c \in found : TRUE
                 updated == [contact EXCEPT !.first_name = body.first_name,
                                            !.last_name = body.last_name,
                                            !.email = body.email,
                                            !.phone_number = body.phone_number,
                                            !.birthday = DateTime(body.birthday),
                                            !.update_date = DateTime(body.update_date)]
             IN  IF ContactEmailUnique(rows, updated)
                 THEN [contact |-> updated, rows |-> (rows \ {contact}) \cup {updated}]
                 ELSE IntegrityError

\* select(Contact).filter_by(id=contact_id, user=user); scalar_one_or_none;
\* assign the six fields; commit; refresh
repository_update_contact(contact_id, body, rows, user) ==
    LET found == {c \in rows : c.id = contact_id /\ c.user_id = user.id}
    IN  IF found = {}
        THEN [contact |-> None, rows |-> rows]
        ELSE LET contact == CHOOSE c \in found : TRUE
                 updated == [contact EXCEPT !.first_name = body.first_name,
                                            !.last_name = body.last_name,
                                            !.email = body.email,
                                            !.phone_number = body.phone_number,
                                            !.birthday = DateTime(body.birthday),
                                            !.update_date = DateTime(body.update_date)]
             IN  IF ContactEmailUnique(rows, updated)
                 THEN [contact |-> updated, rows |-> (rows \ {contact}) \cup {updated}]
                 ELSE IntegrityError

\* def remove_contact(contact_id, body, db, user)
remove_contact_params == <<"contact_id", "body", "db", "user">>

remove_contact(contact_id, body, rows, user) ==
    LET found == {c \in rows : c.id = contact_id /\ c.user_id = user.id}
    IN  IF found = {}
        THEN [contact |-> None, rows |-> rows]
        ELSE LET contact == CHOOSE c \in found : TRUE
             IN  [contact |-> contact, rows |-> rows \ {contact}]

\* timedelta(days=7)
UpcomingDays == 7

\* the window is open at its upper end
upcoming_birthdays_exclusive(rows, day) ==
    {c \in rows : /\ c.birthday >= DateTime(day)
                  /\ c.birthday < DateTime(day + UpcomingDays)}

\* today = datetime.now().date(); end_date = today + timedelta(days=7);
\* where(birthday >= today).where(birthday <= end_date): the two dates are
\* compared with the DateTime column as that day at 00:00:00
repository_get_upcoming_birthdays(rows, day) ==
    {c \in rows : /\ c.birthday >= DateTime(day)
                  /\ c.birthday <= DateTime(day + UpcomingDays)}

\* --------------------------------------------------------- routes/contact.py
\* a List[ContactResponse] body is the record [list |-> the entries]
\* request of a contact route: the path parameter, the resolved current user
\* (its e-mail) and the body
ContactRequest(contact_id, user, body) ==
    [contact_id |-> contact_id, user |-> user, body |-> body]

\* query parameters of GET /api/contacts/
ListRequest(query, user) == [contact_id |-> 0, user |-> user, body |-> query]

ListResponse(op, request, result) ==
    IF "raised" \in DOMAIN result
    THEN Response(op, HTTP_500_INTERNAL_SERVER_ERROR, result.raised, request, None)
    ELSE IF \E i \in DOMAIN result.all : ~ContactResponse_validate(result.all[i])
    THEN Response(op, HTTP_500_INTERNAL_SERVER_ERROR, "ResponseValidationError",
                  request, None)
    ELSE Response(op, HTTP_200_OK, NoneStr, request,
                  [page |-> [i \in DOMAIN result.all |->
                                ContactResponse(result.all[i])]])

\* the handler calls get_contacts(skip, limit, current_user, db): the four
\* positional arguments bind to (limit, offset, db, user) in that order
read_contacts(query, current_user) ==
    LET args == <<query.skip, query.limit, current_user, AsyncSession(contacts)>>
        result == IF Len(args) # Len(get_contacts_params)
                  THEN TypeError
                  ELSE repository_get_contacts(args[1], args[2], args[3], args[4])
    IN  /\ resp' = ListResponse("read_contacts",
                                ListRequest(query, current_user.email), result)
        /\ UNCHANGED <<contacts, nextContactId>>

\* the handler calls get_contacts(db): one positional argument for four
\* parameters raises TypeError; the result would be cut by [offset:][:limit]
get_all(query, user) ==
    LET args == <<AsyncSession(contacts)>>
        found == IF Len(args) # Len(get_contacts_params)
                 THEN TypeError
                 ELSE repository_get_contacts(args[1], args[2], args[3], args[4])
        result == IF "raised" \in DOMAIN found
                  THEN found
                  ELSE [all |-> Page(found.all, query.offset, query.limit)]
    IN  /\ resp' = ListResponse("get_all", ListRequest(query, user.email), result)
        /\ UNCHANGED <<contacts, nextContactId>>

\* both handlers are registered for GET "/" in this order; the router
\* dispatches a request to the first route that matches
ListRoutes == <<"read_contacts", "get_all">>

list_contacts(query, user) ==
    IF Head(ListRoutes) = "read_contacts"
    THEN read_contacts(query, user)
    ELSE get_all(query, user)

get_contact(contact_id, user) ==
    LET contact == repository_get_contact(contact_id, contacts, user)
        request == ContactRequest(contact_id, user.email, None)
    IN  /\ resp' = IF contact = TypeError
                   THEN Response("get_contact", HTTP_500_INTERNAL_SERVER_ERROR,
                                 "TypeError", request, None)
                   ELSE IF contact = None
                   THEN Response("get_contact", HTTP_404_NOT_FOUND, "NOT FOUND",
                                 request, None)
                   ELSE IF ~ContactResponse_validate(contact)
                   THEN Response("get_contact", HTTP_500_INTERNAL_SERVER_ERROR,
                                 "ResponseValidationError", request, None)
                   ELSE Response("get_contact", HTTP_200_OK, NoneStr, request,
                                 ContactResponse(contact))
        /\ UNCHANGED <<contacts, nextContactId>>

create_contact(body, user) ==
    LET result == repository_create_contact(body, contacts, user)
        request == ContactRequest(0, user.email, body)
    IN  IF result = IntegrityError
        THEN /\ resp' = Response("create_contact", HTTP_500_INTERNAL_SERVER_ERROR,
                                 "IntegrityError", request, None)
             /\ UNCHANGED <<contacts, nextContactId>>
        ELSE /\ contacts' = result.rows
             /\ nextContactId' = nextContactId + 1
             /\ resp' = IF ContactResponse_validate(result.contact)
                        THEN Response("create_contact", HTTP_201_CREATED, NoneStr,
                                      request, ContactResponse(result.contact))
                        ELSE Response("create_contact", HTTP_500_INTERNAL_SERVER_ERROR,
                                      "ResponseValidationError", request, None)

update_contact(body, contact_id, user) ==
    LET result == repository_update_contact(contact_id, body, contacts, user)
        request == ContactRequest(contact_id, user.email, body)
    IN  IF result = IntegrityError
        THEN /\ resp' = Response("update_contact", HTTP_500_INTERNAL_SERVER_ERROR,
                                 "IntegrityError", request, None)
             /\ UNCHANGED <<contacts, nextContactId>>
        ELSE /\ contacts' = result.rows
             /\ resp' = IF result.contact = None
                        THEN Response("update_contact", HTTP_404_NOT_FOUND, "NOT FOUND",
                                      request, None)
                        ELSE IF ~ContactResponse_validate(result.contact)
                        THEN Response("update_contact", HTTP_500_INTERNAL_SERVER_ERROR,
                                      "ResponseValidationError", request, None)
                        ELSE Response("update_contact", HTTP_200_OK, NoneStr, request,
                                      ContactResponse(result.contact))
             /\ UNCHANGED nextContactId

\* the handler calls remove_contact(contact_id, db, user): three positional
\* arguments for four parameters raise TypeError before the body runs
delete_contact(contact_id, user) ==
    LET args == <<contact_id, contacts, user>>
        request == ContactRequest(contact_id, user.email, None)
    IN  IF Len(args) # Len(remove_contact_params)
        THEN /\ resp' = Response("delete_contact", HTTP_500_INTERNAL_SERVER_ERROR,
                                 "TypeError", request, None)
             /\ UNCHANGED <<contacts, nextContactId>>
        ELSE LET result == remove_contact(args[1], args[2], args[3], args[4])
             IN  /\ contacts' = result.rows
                 /\ resp' = IF result.contact = None
                            THEN Response("delete_contact", HTTP_404_NOT_FOUND,
                                          "NOT FOUND", request, None)
                            ELSE IF ~ContactResponse_validate(result.contact)
                            THEN Response("delete_contact",
                                          HTTP_500_INTERNAL_SERVER_ERROR,
                                          "ResponseValidationError", request, None)
                            ELSE Response("delete_contact", HTTP_200_OK, NoneStr,
                                          request, ContactResponse(result.contact))
                 /\ UNCHANGED nextContactId

get_upcoming_birthdays ==
    LET upcoming == repository_get_upcoming_birthdays(contacts, today)
    IN  /\ resp' = IF \A c \in upcoming : ContactResponse_validate(c)
                   THEN Response("get_upcoming_birthdays", HTTP_200_OK, NoneStr, None,
                                 [list |-> {ContactResponse(c) : c \in upcoming}])
                   ELSE Response("get_upcoming_birthdays",
                                 HTTP_500_INTERNAL_SERVER_ERROR,
                                 "ResponseValidationError", None, None)
        /\ UNCHANGED <<contacts, nextContactId>>

\* date.today() moves to the next day
NextDay ==
    /\ today < MaxDay
    /\ today' = today + 1
    /\ UNCHANGED <<contacts, nextContactId, resp>>
    /\ UNCHANGED <<authVars, tasks>>

\* the clock read by the token service moves on
Tick ==
    /\ now < MaxNow
    /\ now' = now + 1
    /\ UNCHANGED <<users, nextUserId, mailbox, issued, resp>>
    /\ UNCHANGED <<contactVars, tasks>>

\* ------------------------------------------------------------ specification
NoResponse == Response("none", 0, NoneStr, None, None)

\* no request is suspended: the handlers above run one at a time
NoTasks == <<>>

Init ==
    /\ users = {}
    /\ nextUserId = 1
    /\ mailbox = {}
    /\ issued = {}
    /\ now = 0
    /\ contacts = {}
    /\ nextContactId = 1
    /\ today = 0
    /\ resp = NoResponse
    /\ tasks = NoTasks

Signup == (\E body \in UserSchema : signup(body)) /\ UNCHANGED <<contactVars, tasks>>
Login == (\E body \in OAuth2PasswordRequestForm : login(body)) /\ UNCHANGED <<contactVars, tasks>>
RefreshToken == (\E token \in issued : refresh_token(token)) /\ UNCHANGED <<contactVars, tasks>>
ConfirmedEmail == (\E token \in mailbox : confirmed_email(token)) /\ UNCHANGED <<contactVars, tasks>>

\* the URL the image host returns for an upload
AvatarUrls == {"https://res.cloudinary.com/avatar"}

\* the route runs behind get_current_user: the caller has logged in
UpdateAvatar ==
    /\ \E user \in users, url \in AvatarUrls :
            /\ \E token \in issued : token.sub = user.email
            /\ update_avatar(user.email, url)
    /\ UNCHANGED <<contactVars, tasks>>

Next ==
    \/ Signup
    \/ Login
    \/ RefreshToken
    \/ ConfirmedEmail
    \/ UpdateAvatar
    \/ Tick

Spec == Init /\ [][Next]_vars

TypeOK ==
    /\ nextUserId \in 1..(Cardinality(Emails) + 1)
    /\ now \in 0..MaxNow
    /\ \A u \in users : u.confirmed \in BOOLEAN

\* ------------------------------------------------------------------ claims
HasEmail(email) == \E u \in users : u.email = email
UserOf(email, rows) == CHOOSE u \in rows : u.email = email
Stored(email, rows) == UserOf(email, rows).refresh_token

\* C1: a signup whose e-mail is already in the store answers 409 and leaves
\* the users unchanged, and no two users ever share an e-mail.
C1_DuplicateSignupConflict ==
    /\ [](\A u, v \in users : u.email = v.email => u = v)
    /\ [][\A body \in UserSchema :
            (signup(body) /\ HasEmail(body.email))
                => (resp'.status = 409 /\ users' = users)]_vars

C1_Witness ==
    /\ resp.op = "signup"
    /\ resp.status = 409
    /\ HasEmail(resp.request.email)

\* C2: a signup with a valid body and a fresh e-mail adds exactly one user
\* with confirmed = false and no refresh token, and answers 201 carrying the
\* created user.
C2_SignupCreated ==
    [][\A body \in UserSchema :
            (signup(body) /\ ~HasEmail(body.email))
                => /\ \E u \in users' \ users :
                        /\ users' = users \cup {u}
                        /\ u.email = body.email
                        /\ u.confirmed = FALSE
                        /\ u.refresh_token = None
                        /\ resp'.body # None
                        /\ resp'.body.email = u.email
                   /\ resp'.status = 201]_vars

\* C3: login answers 401 for an unknown e-mail, for an unconfirmed user and
\* for a confirmed user with a wrong password; no token is returned and no
\* stored refresh token changes.
LoginRejected ==
    /\ resp'.status = 401
    /\ resp'.body = None
    /\ users' = users
    /\ issued' = issued

C3_LoginUnauthorized ==
    [][\A body \in OAuth2PasswordRequestForm :
         login(body) =>
            /\ ~HasEmail(body.username) => LoginRejected
            /\ (HasEmail(body.username) /\ ~UserOf(body.username, users).confirmed)
                    => LoginRejected
            /\ (/\ HasEmail(body.username)
                /\ UserOf(body.username, users).confirmed
                /\ UserOf(body.username, users).password # [hashed |-> body.password])
                    => LoginRejected]_vars

C3_Witness ==
    /\ resp.op = "login"
    /\ resp.status = 401
    /\ resp.detail = "Invalid password"
    /\ HasEmail(resp.request.username)
    /\ UserOf(resp.request.username, users).confirmed
    /\ Stored(resp.request.username, users) # None

\* the refresh endpoint would accept token in the state (rows, clock)
RefreshAccepts(token, rows, clock) ==
    /\ token.scope = "refresh_token"
    /\ token.exp >= clock
    /\ \E u \in rows : u.email = token.sub /\ u.refresh_token = token

\* C4 as stated: every validly signed refresh token that differs from the
\* stored one is answered 401 and the stored token is absent afterwards, so
\* the previously current token is rejected as well.
C4_StaleTokenRevokes ==
    [][\A token \in issued :
         (refresh_token(token) /\ Stored(token.sub, users) # token)
            => /\ resp'.status = 401
               /\ Stored(token.sub, users') = None
               /\ Stored(token.sub, users) # None
                    => ~RefreshAccepts(Stored(token.sub, users), users', now')]_vars

\* C4 amended: the same for a validly signed refresh token that has not
\* expired.
C4_UnexpiredStaleTokenRevokes ==
    [][\A token \in issued :
         (token.exp >= now /\ Stored(token.sub, users) # token /\ refresh_token(token))
            => /\ resp'.status = 401
               /\ Stored(token.sub, users') = None
               /\ Stored(token.sub, users) # None
                    => ~RefreshAccepts(Stored(token.sub, users), users', now')]_vars

\* a replaced token was presented, the stored token is gone, and the token
\* that replaced it is still unexpired but no longer accepted
C4_Witness ==
    /\ resp.op = "refresh_token"
    /\ resp.status = 401
    /\ resp.detail = "Invalid refresh token"
    /\ Stored(resp.request.sub, users) = None
    /\ \E later \in issued :
        /\ later.sub = resp.request.sub
        /\ later.iat > resp.request.iat
        /\ later.exp >= now
        /\ ~RefreshAccepts(later, users, now)

\* a login or refresh that answered 200 stored the token it returned
StoresReturnedToken ==
    /\ \A body \in OAuth2PasswordRequestForm :
         (login(body) /\ resp'.status = 200)
            => Stored(body.username, users') = resp'.body.refresh_token
    /\ \A token \in issued :
         (refresh_token(token) /\ resp'.status = 200)
            => Stored(token.sub, users') = resp'.body.refresh_token

\* C5 as stated: a successful login or refresh stores the returned token,
\* and presenting the stored token to the refresh endpoint succeeds and
\* stores the newly returned token.
C5_LatestTokenRefreshes ==
    [][/\ StoresReturnedToken
       /\ \A token \in issued :
            (refresh_token(token) /\ Stored(token.sub, users) = token)
                => /\ resp'.status = 200
                   /\ Stored(token.sub, users') = resp'.body.refresh_token]_vars

\* C5 amended: the same when the stored token is presented before it expires.
C5_UnexpiredLatestTokenRefreshes ==
    [][/\ StoresReturnedToken
       /\ \A token \in issued :
            (token.exp >= now /\ Stored(token.sub, users) = token /\ refresh_token(token))
                => /\ resp'.status = 200
                   /\ Stored(token.sub, users') = resp'.body.refresh_token]_vars

\* the chain login, refresh, refresh: three tokens of one user issued at
\* three instants, the last refresh presented the second and stored the third
C5_Witness ==
    /\ resp.op = "refresh_token"
    /\ resp.status = 200
    /\ Stored(resp.request.sub, users) = resp.body.refresh_token
    /\ resp.request.iat < resp.body.refresh_token.iat
    /\ \E first \in issued :
        first.sub = resp.request.sub /\ first.iat < resp.request.iat

\* C6: for an unconfirmed user the confirm-email request with a valid token
\* answers "Email confirmed" and sets confirmed; once confirmed the user
\* stays confirmed, and every later confirm-email request with a valid token
\* answers "already confirmed" and changes no user record.
C6_ConfirmIdempotent ==
    [][/\ \A u \in users : u.confirmed => \E v \in users' : v.id = u.id /\ v.confirmed
       /\ \A token \in mailbox :
            (confirmed_email(token) /\ token.exp >= now) =>
                IF UserOf(token.sub, users).confirmed
                THEN /\ resp'.status = 200
                     /\ resp'.body = [message |-> "Your email is already confirmed"]
                     /\ users' = users
                ELSE /\ resp'.status = 200
                     /\ resp'.body = [message |-> "Email confirmed"]
                     /\ UserOf(token.sub, users').confirmed
                     /\ users' = (users \ {UserOf(token.sub, users)})
                            \cup {[UserOf(token.sub, users) EXCEPT !.confirmed = TRUE]}]_vars

C6_Witness ==
    /\ resp.op = "confirmed_email"
    /\ resp.status = 200
    /\ resp.body = [message |-> "Your email is already confirmed"]
    /\ UserOf(resp.request.sub, users).confirmed

\* C12: a user is created with confirmed false; no signup, login, refresh,
\* confirm-email or avatar request turns a true flag into false or removes
\* the user, and the only step that changes a flag is a confirm-email
\* request for that user, which sets it to true.
C12_ConfirmedNeverReset ==
    [][/\ \A u \in users : u.confirmed =>
            /\ \E v \in users' : v.id = u.id
            /\ \A v \in users' : v.id = u.id => v.confirmed
       /\ \A v \in users' : (\A u \in users : u.id # v.id) => ~v.confirmed
       /\ \A u \in users, v \in users' :
            (u.id = v.id /\ u.confirmed # v.confirmed) =>
                /\ resp'.op = "confirmed_email"
                /\ resp'.request.sub = u.email
                /\ v.confirmed]_vars

\* a confirmed user has just refreshed a token while another account is
\* still unconfirmed
C12_Witness ==
    /\ resp.op = "refresh_token"
    /\ resp.status = 200
    /\ \E u \in users : u.email = resp.request.sub /\ u.confirmed
    /\ \E u \in users : ~u.confirmed

\* ------------------------------------------------- contact specifications
\* The contact routes run behind get_current_user: the store already holds
\* two users that signed up (Gravatar image found), confirmed their e-mail
\* and logged in at instant 0.  Spec reaches this user store by signup,
\* signup, confirmed_email, login, confirmed_email, login; no contact request
\* has been answered yet.
RegisteredUser(id, email) ==
    [id |-> id, username |-> "alice", email |-> email,
     password |-> get_password_hash("secret1"),
     avatar |-> "https://www.gravatar.com/avatar/" \o email,
     refresh_token |-> [sub |-> email, iat |-> 0, exp |-> RefreshTokenLifetime,
                        scope |-> "refresh_token"],
     confirmed |-> TRUE]

RegisteredUsers ==
    /\ now = 0
    /\ users = {RegisteredUser(1, "a@x.com"), RegisteredUser(2, "b@x.com")}
    /\ nextUserId = 3
    /\ mailbox = {[sub |-> e, iat |-> 0, exp |-> EmailTokenLifetime,
                   scope |-> "email_token"] : e \in Emails}
    /\ issued = {u.refresh_token : u \in users}

RegisteredStore ==
    /\ RegisteredUsers
    /\ contacts = {}
    /\ nextContactId = 1
    /\ today = 0
    /\ resp = NoResponse

InitContacts ==
    /\ RegisteredStore
    /\ tasks = NoTasks

ContactIds == 1..(MaxContacts + 1)

GetContact ==
    /\ \E contact_id \in ContactIds, user \in users : get_contact(contact_id, user)
    /\ UNCHANGED <<authVars, today, tasks>>

CreateContact ==
    /\ nextContactId <= MaxContacts
    /\ \E data \in ContactData, user \in users : create_contact(ContactSchema(data), user)
    /\ UNCHANGED <<authVars, today, tasks>>

UpdateContact ==
    /\ \E data \in ContactData, contact_id \in ContactIds, user \in users :
            update_contact(ContactUpdateSchema(data), contact_id, user)
    /\ UNCHANGED <<authVars, today, tasks>>

DeleteContact ==
    /\ \E contact_id \in ContactIds, user \in users : delete_contact(contact_id, user)
    /\ UNCHANGED <<authVars, today, tasks>>

\* a client that pages with limit and offset leaves skip at its default
ListQuery == [skip : {0}, limit : {1, 2}, offset : {0, 1}]

ListContacts ==
    /\ \E query \in ListQuery, user \in users : list_contacts(query, user)
    /\ UNCHANGED <<authVars, today, tasks>>

GetUpcomingBirthdays ==
    /\ get_upcoming_birthdays
    /\ UNCHANGED <<authVars, today, tasks>>

NextContacts ==
    \/ GetContact
    \/ CreateContact
    \/ UpdateContact
    \/ DeleteContact
    \/ ListContacts
    \/ GetUpcomingBirthdays
    \/ NextDay

SpecContacts == InitContacts /\ [][NextContacts]_vars

CreateBirthdayContact ==
    /\ nextContactId <= MaxBirthdayContacts
    /\ \E data \in ContactData, user \in users : create_contact(ContactSchema(data), user)
    /\ UNCHANGED <<authVars, today, tasks>>

NextBirthdays ==
    \/ CreateBirthdayContact
    \/ GetUpcomingBirthdays
    \/ NextDay

SpecBirthdays == InitContacts /\ [][NextBirthdays]_vars

\* -------------------------------------------------------- contact claims
Owns(user, contact_id, rows) ==
    \E c \in rows : c.id = contact_id /\ c.user_id = user.id

NotFoundNoChange ==
    /\ resp'.status = 404
    /\ contacts' = contacts

\* C7: for every contact and every user that does not own it, get-by-id,
\* update and delete by that user each answer 404 and leave the contacts
\* unchanged.
C7_OwnershipIsolation ==
    [][\A c \in contacts, user \in users :
         user.id # c.user_id =>
            /\ get_contact(c.id, user) => NotFoundNoChange
            /\ \A data \in ContactData :
                 update_contact(ContactUpdateSchema(data), c.id, user) => NotFoundNoChange
            /\ delete_contact(c.id, user) => NotFoundNoChange]_vars

C9_UpdateMissingNotFound ==
    [][\A user \in users :
         (/\ resp'.op = "update_contact"
          /\ resp'.request.user = user.email
          /\ update_contact(resp'.request.body, resp'.request.contact_id, user)
          /\ ~Owns(user, resp'.request.contact_id, contacts))
            => NotFoundNoChange]_vars

\* the caller asked for a contact that exists and belongs to the other user
C9_Witness ==
    /\ resp.op = "update_contact"
    /\ resp.status = 404
    /\ \E c \in contacts, owner \in users :
        /\ c.id = resp.request.contact_id
        /\ owner.id = c.user_id
        /\ owner.email # resp.request.user
        /\ c.email # resp.request.body.email

\* C10: a delete for a contact the caller owns removes exactly that contact
\* and answers with its last state, after which the caller no longer finds
\* it; a delete for a contact the caller does not own answers 404 and
\* removes nothing.
C10_DeleteOwned ==
    [][\A contact_id \in ContactIds, user \in users :
         delete_contact(contact_id, user) =>
            IF Owns(user, contact_id, contacts)
            THEN LET contact == CHOOSE c \in contacts : c.id = contact_id
                 IN  /\ contacts' = contacts \ {contact}
                     /\ resp'.status = 200
                     /\ resp'.body = ContactResponse(contact)
                     /\ ~Owns(user, contact_id, contacts')
            ELSE NotFoundNoChange]_vars
\* C11: a list request of an authenticated user with limit L and offset O is
\* answered 200 with the caller's own contacts, the first O skipped and at
\* most L kept, and with no contact of another user.
OwnPage(query, user) ==
    Page(OrderedById({ContactResponse(c) : c \in {d \in contacts : d.user_id = user.id}}),
         query.offset, query.limit)

C11_ListOwnPage ==
    [][\A query \in ListQuery, user \in users :
          list_contacts(query, user) =>
              /\ resp'.status = HTTP_200_OK
              /\ resp'.body = [page |-> OwnPage(query, user)]]_vars

\* ------------------------------------------------------------ database/db.py
\* DatabaseSessionManager.session and get_db.  A caller (get_db on behalf of
\* one request) enters the context manager, runs its block on the yielded
\* session and leaves it; rollback and close are awaited, so callers
\* interleave between them.
MaxCallers == 3

Callers == 1..MaxCallers

\* async_sessionmaker(autocommit=False, autoflush=False, bind=engine), set in
\* __init__ and never reset
session_maker == [autocommit |-> FALSE, autoflush |-> FALSE]

\* how the block under "async with" ends: it runs to its end, it raises an
\* Exception, or it leaves early with return
BlockOutcomes == {"success", "raise", "return"}

\* try / finally without the except clause: the error passes through
session_exit_reraises(outcome) ==
    [pending |-> <<"close">>, raised |-> outcome = "raise"]

\* try: yield session / except Exception: print; rollback / finally: close.
\* pending: the calls the generator still awaits; raised: whether an error
\* leaves the context manager
session_exit(outcome) ==
    IF outcome = "raise"
    THEN [pending |-> <<"rollback", "close">>, raised |-> FALSE]
    ELSE [pending |-> <<"close">>, raised |-> FALSE]

\* a caller that has not asked for a session yet
Idle == [pc |-> "idle", outcome |-> NoneStr, pending |-> <<>>, log |-> <<>>,
         raised |-> FALSE]

\* if self._session_maker is None: raise; session = self._session_maker();
\* yield session
session_enter(k) ==
    /\ tasks[k].pc = "idle"
    /\ session_maker # None
    /\ tasks' = [tasks EXCEPT ![k].pc = "block"]

\* the caller's block ends and control goes back into the generator
block_exit(k, outcome) ==
    /\ tasks[k].pc = "block"
    /\ tasks' = [tasks EXCEPT ![k].pc = "exit",
                              ![k].outcome = outcome,
                              ![k].pending = session_exit(outcome).pending]

\* the generator is done after its last call: the caller goes on, with the
\* error if one left the context manager
session_after(k, call) ==
    LET rest == Tail(tasks[k].pending)
    IN  tasks' = [tasks EXCEPT
            ![k].log = Append(@, call),
            ![k].pending = rest,
            ![k].pc = IF rest = <<>> THEN "returned" ELSE "exit",
            ![k].raised = IF rest = <<>>
                          THEN session_exit(tasks[k].outcome).raised ELSE @]

\* await session.rollback()
session_rollback(k) ==
    /\ tasks[k].pc = "exit"
    /\ Head(tasks[k].pending) = "rollback"
    /\ session_after(k, "rollback")

\* await session.close()
session_close(k) ==
    /\ tasks[k].pc = "exit"
    /\ Head(tasks[k].pending) = "close"
    /\ session_after(k, "close")

storeVars == <<users, nextUserId, mailbox, issued, now, contacts, nextContactId, today>>

InitSession ==
    /\ RegisteredStore
    /\ tasks = [k \in Callers |-> Idle]

SessionEnter == (\E k \in Callers : session_enter(k)) /\ UNCHANGED <<storeVars, resp>>
BlockExit ==
    /\ \E k \in Callers, outcome \in BlockOutcomes : block_exit(k, outcome)
    /\ UNCHANGED <<storeVars, resp>>
SessionRollback == (\E k \in Callers : session_rollback(k)) /\ UNCHANGED <<storeVars, resp>>
SessionClose == (\E k \in Callers : session_close(k)) /\ UNCHANGED <<storeVars, resp>>

NextSession ==
    \/ SessionEnter
    \/ BlockExit
    \/ SessionRollback
    \/ SessionClose

SpecSession == InitSession /\ [][NextSession]_vars

Count(log, call) == Cardinality({i \in DOMAIN log : log[i] = call})

MaxUpdates == 2

UpdateTasks == 1..MaxUpdates

\* the contact user 1 created on day 0 (create_contact with the first body of
\* ContactData in SpecContacts)
FirstContact ==
    [id |-> 1, first_name |-> "Ann", last_name |-> "Lee", email |-> "ann@x.com",
     phone_number |-> "111", birthday |-> DateTime(0), created_date |-> DateTime(0),
     update_date |-> DateTime(0), user_id |-> 1]

UpdateIdle ==
    [pc |-> "idle", request |-> None, loaded |-> None, selected_after |-> 0,
     order |-> 0, resp |-> NoResponse]

\* commits of update requests so far
Commits == Cardinality({k \in DOMAIN tasks : tasks[k].order > 0})

\* sq = select(Contact).filter_by(id=contact_id, user=user);
\* result = await db.execute(sq); contact = result.scalar_one_or_none().
\* With no row the repository returns None and the handler raises 404; with a
\* row the six assignments follow without suspension and the request next
\* awaits the commit
update_select(k, body, contact_id, user) ==
    LET found == {c \in contacts : c.id = contact_id /\ c.user_id = user.id}
        request == ContactRequest(contact_id, user.email, body)
        not_found == Response("update_contact", HTTP_404_NOT_FOUND, "NOT FOUND",
                              request, None)
    IN  /\ tasks[k].pc = "idle"
        /\ IF found = {}
           THEN /\ tasks' = [tasks EXCEPT ![k].pc = "done", ![k].request = request,
                                          ![k].resp = not_found]
                /\ resp' = not_found
           ELSE /\ tasks' = [tasks EXCEPT ![k].pc = "loaded", ![k].request = request,
                                          ![k].loaded = CHOOSE c \in found : TRUE,
                                          ![k].selected_after = Commits]
                /\ UNCHANGED resp
        /\ UNCHANGED <<contacts, nextContactId>>

\* the flush of the commit: UPDATE contacts SET ... WHERE id = contact.id.
\* The unit of work puts into SET only the attributes whose assigned value
\* differs from the value the session loaded.  The date assigned to birthday
\* and update_date never equals the datetime loaded from the DateTime
\* column, so these two are always written; the other columns of the row
\* keep what the store holds at the time of the UPDATE
flush_update(contact, body, rows) ==
    LET row == CHOOSE c \in rows : c.id = contact.id
        updated ==
            [row EXCEPT
                !.first_name = IF body.first_name # contact.first_name
                               THEN body.first_name ELSE @,
                !.last_name = IF body.last_name # contact.last_name
                              THEN body.last_name ELSE @,
                !.email = IF body.email # contact.email THEN body.email ELSE @,
                !.phone_number = IF body.phone_number # contact.phone_number
                                 THEN body.phone_number ELSE @,
                !.birthday = DateTime(body.birthday),
                !.update_date = DateTime(body.update_date)]
    IN  IF ContactEmailUnique(rows, updated)
        THEN [rows |-> (rows \ {row}) \cup {updated}]
        ELSE IntegrityError

\* await db.commit(): the flush and the COMMIT; a concurrent UPDATE of the
\* same row waits for the COMMIT, so the two are one step
update_commit(k) ==
    LET result == flush_update(tasks[k].loaded, tasks[k].request.body, contacts)
        failed == Response("update_contact", HTTP_500_INTERNAL_SERVER_ERROR,
                           "IntegrityError", tasks[k].request, None)
    IN  /\ tasks[k].pc = "loaded"
        /\ IF result = IntegrityError
           THEN /\ tasks' = [tasks EXCEPT ![k].pc = "done", ![k].resp = failed]
                /\ resp' = failed
                /\ UNCHANGED contacts
           ELSE /\ contacts' = result.rows
                /\ tasks' = [tasks EXCEPT ![k].pc = "committed",
                                          ![k].order = Commits + 1]
                /\ UNCHANGED resp
        /\ UNCHANGED nextContactId

\* await db.refresh(contact); return contact: the row as the store holds it
\* now goes through response_model
update_refresh(k) ==
    LET contact == CHOOSE c \in contacts : c.id = tasks[k].loaded.id
        response == IF ContactResponse_validate(contact)
                    THEN Response("update_contact", HTTP_200_OK, NoneStr,
                                  tasks[k].request, ContactResponse(contact))
                    ELSE Response("update_contact", HTTP_500_INTERNAL_SERVER_ERROR,
                                  "ResponseValidationError", tasks[k].request, None)
    IN  /\ tasks[k].pc = "committed"
        /\ tasks' = [tasks EXCEPT ![k].pc = "done", ![k].resp = response]
        /\ resp' = response
        /\ UNCHANGED <<contacts, nextContactId>>

InitUpdates ==
    /\ RegisteredUsers
    /\ contacts = {FirstContact}
    /\ nextContactId = 2
    /\ today = 0
    /\ resp = NoResponse
    /\ tasks = [k \in UpdateTasks |-> UpdateIdle]

UpdateSelect ==
    /\ \E k \in UpdateTasks, data \in ContactData, user \in users :
            update_select(k, ContactUpdateSchema(data), FirstContact.id, user)
    /\ UNCHANGED <<authVars, today>>
UpdateCommit == (\E k \in UpdateTasks : update_commit(k)) /\ UNCHANGED <<authVars, today>>
UpdateRefresh == (\E k \in UpdateTasks : update_refresh(k)) /\ UNCHANGED <<authVars, today>>

NextUpdates ==
    \/ UpdateSelect
    \/ UpdateCommit
    \/ UpdateRefresh

SpecUpdates == InitUpdates /\ [][NextUpdates]_vars

\* the mutable fields of a stored contact equal those of an update body
FieldsOf(contact, body) ==
    /\ contact.first_name = body.first_name
    /\ contact.last_name = body.last_name
    /\ contact.email = body.email
    /\ contact.phone_number = body.phone_number
    /\ contact.birthday = DateTime(body.birthday)
    /\ contact.update_date = DateTime(body.update_date)

\* C14: when two update requests of the owner for one contact have both
\* completed, and the one that committed last had read the contact before
\* the other committed, both were answered without error and the stored
\* contact's mutable fields are those of the body that committed last.
C14_LastCommitWins ==
    \A j \in UpdateTasks, k \in UpdateTasks :
        ( /\ tasks[j].pc = "done" /\ tasks[k].pc = "done"
          /\ 0 < tasks[j].order /\ tasks[j].order < tasks[k].order
          /\ tasks[k].selected_after < tasks[j].order
          /\ \A i \in UpdateTasks : tasks[i].order <= tasks[k].order )
        => /\ tasks[j].resp.status = HTTP_200_OK
           /\ tasks[k].resp.status = HTTP_200_OK
           /\ \A c \in contacts :
                c.id = tasks[k].loaded.id => FieldsOf(c, tasks[k].request.body)

\* -------------------------------------------- concurrent refresh requests
\* GET /api/auth/refresh_token as the steps between its suspension points:
\* the request suspends while the user is read and again while the new token
\* is committed.  Each request has its own session and compares the token
\* with the User object that session loaded.
MaxRefreshes == 2

RefreshTasks == 1..MaxRefreshes

RefreshIdle == [pc |-> "idle", request |-> None, loaded |-> None, resp |-> NoResponse]

\* token = credentials.credentials; email = await decode_refresh_token(token);
\* user = await get_user_by_email(email, db)
refresh_select(k, token) ==
    LET email == decode_refresh_token(token)
        rejected == Response("refresh_token", HTTP_401_UNAUTHORIZED,
                             "Could not validate credentials", token, None)
    IN  /\ tasks[k].pc = "idle"
        /\ IF email = None
           THEN /\ tasks' = [tasks EXCEPT ![k].pc = "done", ![k].request = token,
                                          ![k].resp = rejected]
                /\ resp' = rejected
           ELSE /\ tasks' = [tasks EXCEPT ![k].pc = "loaded", ![k].request = token,
                                          ![k].loaded = get_user_by_email(email.sub, users)]
                /\ UNCHANGED resp
        /\ UNCHANGED <<users, nextUserId, mailbox, issued, now>>

\* user.refresh_token = token; await db.commit() on the object the session
\* loaded: the flush writes the column of the stored row, and only when the
\* assigned value differs from the loaded one
commit_token(user, token, rows) ==
    IF token = user.refresh_token
    THEN rows
    ELSE update_token(CHOOSE u \in rows : u.id = user.id, token, rows)

\* if user.refresh_token != token: update_token(user, None); raise 401.
\* Otherwise the two tokens are created and update_token(user, refresh_token)
\* commits the new one
refresh_commit(k) ==
    LET token == tasks[k].request
        user == tasks[k].loaded
        invalid == Response("refresh_token", HTTP_401_UNAUTHORIZED,
                            "Invalid refresh token", token, None)
        access_token == create_access_token(user.email)
        new_token == create_refresh_token(user.email)
        success == Response("refresh_token", HTTP_200_OK, NoneStr, token,
                            TokenModel(access_token, new_token))
    IN  /\ tasks[k].pc = "loaded"
        /\ IF user.refresh_token # token
           THEN /\ users' = commit_token(user, None, users)
                /\ tasks' = [tasks EXCEPT ![k].pc = "done", ![k].resp = invalid]
                /\ resp' = invalid
                /\ UNCHANGED issued
           ELSE /\ users' = commit_token(user, new_token, users)
                /\ issued' = issued \cup {new_token}
                /\ tasks' = [tasks EXCEPT ![k].pc = "done", ![k].resp = success]
                /\ resp' = success
        /\ UNCHANGED <<nextUserId, mailbox, now>>

\* the two users logged in at instant 0 and the clock has moved on since
InitRefresh ==
    /\ now = 1
    /\ users = {RegisteredUser(1, "a@x.com"), RegisteredUser(2, "b@x.com")}
    /\ nextUserId = 3
    /\ mailbox = {[sub |-> e, iat |-> 0, exp |-> EmailTokenLifetime,
                   scope |-> "email_token"] : e \in Emails}
    /\ issued = {u.refresh_token : u \in users}
    /\ contacts = {}
    /\ nextContactId = 1
    /\ today = 0
    /\ resp = NoResponse
    /\ tasks = [k \in RefreshTasks |-> RefreshIdle]

RefreshSelect ==
    /\ \E k \in RefreshTasks, token \in issued : refresh_select(k, token)
    /\ UNCHANGED contactVars
RefreshCommit == (\E k \in RefreshTasks : refresh_commit(k)) /\ UNCHANGED contactVars

NextRefresh ==
    \/ RefreshSelect
    \/ RefreshCommit
    \/ Tick

SpecRefresh == InitRefresh /\ [][NextRefresh]_vars

\* requests answered with success that presented the token
Accepted(token) ==
    {k \in RefreshTasks : /\ tasks[k].pc = "done"
                          /\ tasks[k].request = token
                          /\ tasks[k].resp.status = HTTP_200_OK}

\* C15: whatever the interleaving of the refresh requests, at most one
\* request that presented a given refresh token is answered with success.
C15_RefreshTokenSingleUse ==
    \A token \in issued : Cardinality(Accepted(token)) <= 1

====
